---- MODULE Spec2Model ----
(***************************************************************************)
(* discord-docker-status: the Poller (container_thread) and the Reconciler *)
(* (message_update) of src/main.rs, the Store they share behind one tokio  *)
(* Mutex, the Docker daemon as Workload Source and the Discord guild       *)
(* category as Notification Sink.                                          *)
(*                                                                         *)
(* main runs both loops with tokio::try_join! on ONE task: they interleave *)
(* only where a future is pending (a network call, a sleep, a contended    *)
(* lock). A pc value names either such a suspension point or a point in    *)
(* the synchronous code between two of them; a task may step only while    *)
(* the other one is suspended.                                             *)
(***************************************************************************)
EXTENDS Integers, Sequences, FiniteSets, TLC

\* ------------------------------------------------------------------ bounds
\* How many times a container of the Docker daemon may change.
MaxChanges == 2

\* Container ids and display names. The name "a" equals the id "a": both are
\* plain strings to the program, which compares channel names with ids.
Ids == {"a", "b"}
\* A display name of 101 chars: longer than a channel name may be.
LongName ==
    "xxxxxxxxxxxxxxxxxxxxxxxxxxxxxxxxxxxxxxxxxxxxxxxxxxxxxxxxxxxxxxxxxxxxxxxxxxxxxxxxxxxxxxxxxxxxxxxxxxxxx"
Names == {"a", "n", LongName}

\* ------------------------------------------------------- program constants
\* Option::None of the message id in a handle (channel.id, None).
NoMessage == 0
\* A container the daemon does not list.
Absent == "absent"
\* A listed container with a required field (names.first()) missing.
MissingField == "missing"

\* A local of the Reconciler that is out of scope.
NoName == "-"
NoChannel == 0
\* No logs, and a formatter local of the Reconciler that is out of scope.
NoText == << >>

Entries == Names \cup {Absent, MissingField}

VARIABLES
    docker,      \* Workload Source: id -> display name | Absent | MissingField
    changes,     \* how many changes `docker` has seen
    store,       \* Store {containers, to_remove} behind the Mutex
    lock,        \* Mutex permit: "free", "poller", "reconciler"
    ppc,         \* Poller position
    plist,       \* Poller: the list_containers response still to iterate
    new_store,   \* Poller: the map being built
    rpc,         \* Reconciler position
    channels,    \* Reconciler: id -> [channel, message] (the handle map)
    rm_names,    \* Reconciler: what the drain(..) iterator still yields
    name,        \* Reconciler: the removed key being processed
    rm_matches,  \* Reconciler: channels of the response still to delete
    chan,        \* Reconciler: the channel whose delete is in flight
    view,        \* Reconciler: containers.values() collected under the lock
    todo,        \* Reconciler: ids of `view` still to process
    cur,         \* Reconciler: the container being processed
    sink,        \* Notification Sink: channel id -> [name, msgs]
    nextId,      \* next fresh snowflake the Sink hands out
    err,         \* the error or panic that ended the process ("none" while running)
    created,     \* history: channel id -> container id it was created for
    published,   \* history: the map the Poller built for its latest publish
    calls,       \* history: Sink calls issued in the current Reconciler cycle
    logs,        \* Reconciler: container.logs of the container being formatted
    text,        \* Reconciler: `logs`, the sanitized and concatenated String
    description, \* Reconciler: the log portion of the embed description
    meta,        \* Reconciler: chars of container.image and container.command
    resp         \* Reconciler: the id in a Sink response whose body is unread

vars == << docker, changes, store, lock, ppc, plist, new_store, rpc, channels,
           rm_names, name, rm_matches, chan, view, todo, cur, sink, nextId,
           err, created, published, calls, logs, text, description,
           meta, resp >>

pvars == << ppc, plist, new_store >>
rlocals == << rm_names, name, rm_matches, chan, view, todo, cur >>
\* The locals of one iteration of the update loop.
riter == << logs, text, description, meta, resp >>

\* ----------------------------------------------------------------- helpers
EmptyMap == [x \in {} |-> x]

Restrict(f, S) == [x \in S |-> f[x]]

Put(f, k, v) == [x \in (DOMAIN f) \cup {k} |-> IF x = k THEN v ELSE f[x]]

Remove(f, k) == Restrict(f, (DOMAIN f) \ {k})

\* Every order the elements of S may come in.
Orders(S) == { s \in [1..Cardinality(S) -> S] :
                 \A i, j \in 1..Cardinality(S) : i # j => s[i] # s[j] }

\* --------------------------------------------------------------- scheduling
\* The Poller is in synchronous code (not at a pending future).
PRunning == \/ ppc \in {"connect", "next"}
            \/ ppc = "lock" /\ lock # "reconciler"

\* The Reconciler is in synchronous code (not at a pending future).
RRunning == \/ rpc \in {"token", "rm_next", "rm_match", "up_next", "sanitize",
                       "truncate", "embed"}
            \/ rpc \in {"lock_drain", "lock_read"} /\ lock # "poller"

\* tokio's Mutex is fair: a released permit goes to the queued waiter.
PollerReleases == IF rpc \in {"lock_drain", "lock_read"} THEN "reconciler" ELSE "free"

ReconcilerReleases == IF ppc = "lock" THEN "poller" ELSE "free"

Alive == err = "none"

\* ------------------------------------------------------------ initial state
\* The channels of CATEGORY when the program starts: none, or one channel the
\* program did not create (then its name is "a").
InitialSinks == {EmptyMap, Put(EmptyMap, 1, [name |-> "a", msgs |-> {}])}

Init ==
    /\ docker \in [Ids -> Entries]
    /\ changes = 0
    /\ store = [containers |-> EmptyMap, to_remove |-> << >>]
    /\ lock = "free"
    /\ ppc = "connect"
    /\ plist = << >>
    /\ new_store = EmptyMap
    /\ rpc = "token"
    /\ channels = EmptyMap
    /\ rm_names = << >>
    /\ name = NoName
    /\ rm_matches = {}
    /\ chan = NoChannel
    /\ view = EmptyMap
    /\ todo = {}
    /\ cur = NoName
    /\ sink \in InitialSinks
    /\ nextId = Cardinality(DOMAIN sink) + 1
    /\ err = "none"
    /\ created = EmptyMap
    /\ published = EmptyMap
    /\ calls = << >>
    /\ logs = NoText
    /\ text = NoText
    /\ description = NoText
    /\ meta = 0
    /\ resp = NoChannel

\* ------------------------------------------------------------ Workload Source
\* One container starts, stops, is renamed or loses a field. The daemon's
\* state is read by list_containers alone, so a change at any other moment is
\* the same as one during the Poller's sleep before that call.
DockerChange ==
    /\ Alive /\ ppc = "sleep"
    /\ changes < MaxChanges
    /\ \E i \in Ids, e \in Entries :
          e # docker[i] /\ docker' = [docker EXCEPT ![i] = e]
    /\ changes' = changes + 1
    /\ UNCHANGED << store, lock, pvars, rpc, channels, rlocals, sink, nextId,
                    err, created, published, calls, riter >>

\* What list_containers(all: true) may answer: one entry per listed container,
\* in the order the daemon chooses.
Listings(d) ==
    { [k \in 1..Len(ids) |-> [id |-> ids[k], name |-> d[ids[k]]]] :
        ids \in Orders({i \in Ids : d[i] # Absent}) }

\* ------------------------------------------------------------------- Poller
\* Mutant of Install: the new entries are written into the old map in place.
InstallMerge(old, new) ==
    [x \in (DOMAIN old) \cup (DOMAIN new) |->
        IF x \in DOMAIN new THEN new[x] ELSE old[x]]

\* store.containers = new_store
Install(old, new) == new

\* Mutant of ToRemove: the filter on new_store is left out.
ToRemoveUnfiltered(old, new) == DOMAIN old

\* store.containers.keys().filter(|name| !new_store.contains_key(name))
ToRemove(old, new) == (DOMAIN old) \ (DOMAIN new)

\* new_store.entry(id).or_insert(Container {..}).logs = logs
Entry(m, c) == IF c.id \in DOMAIN m THEN m ELSE Put(m, c.id, c.name)

\* try_join! returns the first error: main logs it and the process ends, the
\* other future is dropped with whatever guard it holds.
PollerExit(msg) ==
    /\ ppc' = "exited"
    /\ rpc' = "cancelled"
    /\ err' = msg
    /\ lock' = "free"

\* Docker::connect_with_socket_defaults() is Ok: the loop is entered and
\* list_containers is issued.
PConnectOk ==
    /\ ppc = "connect"
    /\ ppc' = "list"
    /\ UNCHANGED << docker, changes, store, lock, plist, new_store, rpc,
                    channels, rlocals, sink, nextId, err, created, published,
                    calls, riter >>

\* .context("Failed to connect to Docker")?: message_update is never polled.
PConnectFail ==
    /\ ppc = "connect"
    /\ PollerExit("Failed to connect to Docker")
    /\ UNCHANGED << docker, changes, store, plist, new_store, channels,
                    rlocals, sink, nextId, created, published, calls, riter >>

\* list_containers(..).await answered.
PListOk ==
    /\ ppc = "list" /\ ~RRunning
    /\ \E l \in Listings(docker) : plist' = l
    /\ ppc' = "next"
    /\ UNCHANGED << docker, changes, store, lock, new_store, rpc, channels,
                    rlocals, sink, nextId, err, created, published, calls,
                    riter >>

\* list_containers(..).await.context("Failed to list containers")?
PListFail ==
    /\ ppc = "list" /\ ~RRunning
    /\ PollerExit("Failed to list containers")
    /\ UNCHANGED << docker, changes, store, plist, new_store, channels,
                    rlocals, sink, nextId, created, published, calls, riter >>

\* Mutant of PSkipMalformed: the malformed entry ends the loop (break).
PSkipMalformedBreaks ==
    /\ ppc = "next" /\ plist # << >>
    /\ Head(plist).name = MissingField
    /\ plist' = << >>
    /\ UNCHANGED << docker, changes, store, lock, ppc, new_store, rpc, channels,
                    rlocals, sink, nextId, err, created, published, calls,
                    riter >>

\* let Some([id, name, image, command, status]) = .. else { warn!; continue }
PSkipMalformed ==
    /\ ppc = "next" /\ plist # << >>
    /\ Head(plist).name = MissingField
    /\ plist' = Tail(plist)
    /\ UNCHANGED << docker, changes, store, lock, ppc, new_store, rpc, channels,
                    rlocals, sink, nextId, err, created, published, calls,
                    riter >>

\* docker.logs(id, ..).collect().await issued for a well-formed entry.
PLogsIssue ==
    /\ ppc = "next" /\ plist # << >>
    /\ Head(plist).name # MissingField
    /\ ppc' = "logs"
    /\ UNCHANGED << docker, changes, store, lock, plist, new_store, rpc,
                    channels, rlocals, sink, nextId, err, created, published,
                    calls, riter >>

\* The log stream ended (its errors are dropped by flatten()): insert.
PLogsDone ==
    /\ ppc = "logs" /\ ~RRunning
    /\ new_store' = Entry(new_store, Head(plist))
    /\ plist' = Tail(plist)
    /\ ppc' = "next"
    /\ UNCHANGED << docker, changes, store, lock, rpc, channels, rlocals, sink,
                    nextId, err, created, published, calls, riter >>

\* The for loop over the response is done: go on to store.lock().await.
PLoopEnd ==
    /\ ppc = "next" /\ plist = << >>
    /\ ppc' = "lock"
    /\ UNCHANGED << docker, changes, store, lock, plist, new_store, rpc,
                    channels, rlocals, sink, nextId, err, created, published,
                    calls, riter >>

\* { let mut store = store.lock().await; to_remove = ..; containers = new_store }
PPublish ==
    /\ ppc = "lock" /\ lock \in {"free", "poller"}
    /\ \E order \in Orders(ToRemove(store.containers, new_store)) :
          store' = [containers |-> Install(store.containers, new_store),
                    to_remove  |-> order]
    /\ published' = new_store
    /\ lock' = PollerReleases
    /\ new_store' = EmptyMap
    /\ ppc' = "sleep"
    /\ UNCHANGED << docker, changes, plist, rpc, channels, rlocals, sink,
                    nextId, err, created, calls, riter >>

\* sleep(30s) elapsed: new_store = HashMap::new(); list_containers is issued.
PWake ==
    /\ ppc = "sleep" /\ ~RRunning
    /\ ppc' = "list"
    /\ new_store' = EmptyMap
    /\ UNCHANGED << docker, changes, store, lock, plist, rpc, channels, rlocals,
                    sink, nextId, err, created, published, calls, riter >>

\* ----------------------------------------------------------------- formatter
\* A log text is kept run-length encoded: a run [c, n] is n repetitions of one
\* piece of kind c. Kinds: "ascii" (one byte, one char), "two" (a char of two
\* UTF-8 bytes, like U+00E9), "three" (a char of three bytes, like U+20AC),
\* "esc" (one ANSI escape sequence), "invalid" (the byte 0xFF, not UTF-8).
\* One LogOutput message is one run; a String is a sequence of runs of chars
\* in which neighbours differ in kind.
Kinds == {"ascii", "two", "three", "esc", "invalid"}

\* Repetition counts around the limit: 1951 two-byte chars and 1300 three-byte
\* chars are 3902 and 3900 bytes.
Counts == {1, 1300, 1951, 3900}

\* How many LogOutput messages a container's logs hold.
MaxChunks == 2

Chunks == [c : Kinds, n : Counts]

LogInputs == UNION {[1..k -> Chunks] : k \in 0..MaxChunks}

\* The logs the daemon streams in the two-task model: a short line, a text of
\* 3900 one-byte chars, and 1951 two-byte chars followed by one more char.
LogTexts == { << [c |-> "ascii", n |-> 1] >>,
              << [c |-> "ascii", n |-> 3900] >>,
              << [c |-> "two", n |-> 1951], [c |-> "ascii", n |-> 1] >> }

\* How many chars container.image and container.command have together.
Metas == {40, 300}

\* &logs[(logs.len() as i64 - 3900).max(0) as usize..]
Limit == 3900

\* UTF-8 bytes of one char.
Width(c) == CASE c = "ascii" -> 1 [] c = "two" -> 2 [] c = "three" -> 3

\* format!("-- Failed to parse bytes as utf8: {}", e) for the bytes 0xFF...
Placeholder ==
    "-- Failed to parse bytes as utf8: invalid utf-8 sequence of 1 bytes from index 0"

\* String::from_utf8(message).unwrap_or_else(|e| format!(...))
FromUtf8(m) == IF m.c = "invalid"
               THEN [c |-> "ascii", n |-> Len(Placeholder)]
               ELSE m

\* strip_ansi_escapes::strip_str(..).chars().collect::<String>()
StripStr(r) == IF r.c = "esc" THEN << >> ELSE << r >>

\* String concatenation.
Concat(s, t) ==
    IF s # << >> /\ t # << >> /\ s[Len(s)].c = t[1].c
    THEN SubSeq(s, 1, Len(s) - 1)
         \o << [c |-> t[1].c, n |-> s[Len(s)].n + t[1].n] >>
         \o Tail(t)
    ELSE s \o t

RECURSIVE Sanitize(_)
\* container.logs.iter().map(|l| ...).collect::<String>()
Sanitize(lg) == IF lg = << >> THEN << >>
                ELSE Concat(StripStr(FromUtf8(Head(lg))), Sanitize(Tail(lg)))

RECURSIVE ByteLen(_)
\* str::len(): the length in bytes.
ByteLen(t) == IF t = << >> THEN 0
              ELSE Head(t).n * Width(Head(t).c) + ByteLen(Tail(t))

RECURSIVE CharLen(_)
\* The length in chars.
CharLen(t) == IF t = << >> THEN 0 ELSE Head(t).n + CharLen(Tail(t))

\* (logs.len() as i64 - 3900).max(0) as usize
Start(t) == IF ByteLen(t) - Limit > 0 THEN ByteLen(t) - Limit ELSE 0

RECURSIVE IsCharBoundary(_, _)
\* str::is_char_boundary(i), for i <= len: indexing a str by a range panics
\* when it is false.
IsCharBoundary(t, i) ==
    IF i = 0 \/ t = << >> THEN i = 0
    ELSE LET w == Width(Head(t).c)
             b == Head(t).n * w
         IN  IF i >= b THEN IsCharBoundary(Tail(t), i - b) ELSE i % w = 0

RECURSIVE SliceFrom(_, _)
\* &t[i..] for a char boundary i: the bytes from offset i on.
SliceFrom(t, i) ==
    IF i = 0 \/ t = << >> THEN t
    ELSE LET w == Width(Head(t).c)
             b == Head(t).n * w
         IN  IF i >= b THEN SliceFrom(Tail(t), i - b)
             ELSE << [c |-> Head(t).c, n |-> Head(t).n - (i \div w)] >> \o Tail(t)

\* ------------------------------------------------------- request validation
\* twilight validates a request when it is built; the limits are the
\* library's (twilight-validate): a channel name has 1 to 100 chars, a message
\* content at most 2000 chars, an embed description at most 4096 chars.
ValidChannelName(n) == Len(n) >= 1 /\ Len(n) <= 100

\* .content("") / .content(Some(""))
Content == ""

\* format!("Image `{}`\nRunning `{}`:\n```{}```", image, command, slice)
\* without its three arguments ("#" for a backtick, "|" for a newline).
DescriptionFrame == "Image ##|Running ##:|######"

\* The chars of the description for the slice d and m chars of image and
\* command.
DescriptionLen(d, m) == Len(DescriptionFrame) + m + CharLen(d)

\* The errors building the message request ends with.
RequestErrors(d, m) ==
    IF Len(Content) > 2000 THEN {"Failed to set message content"}
    ELSE IF DescriptionLen(d, m) > 4096 THEN {"Failed to set message embeds"}
    ELSE {}

\* ---------------------------------------------------------------- Reconciler
\* .filter(|c| c.parent_id == Some(CATEGORY)).filter(|c| c.name == Some(&name))
\* (the sink holds the channels of CATEGORY only)
MatchingChannels(snk, key) == {c \in DOMAIN snk : snk[c].name = key}

\* channels.remove(&name)
DropHandle(chs, key) == Remove(chs, key)

\* channels.get(&container.id)
HasHandle(chs, id) == id \in DOMAIN chs

\* channels.insert(container.id.clone(), (channel.id, None))
NewHandle(chs, id, c) == Put(chs, id, [channel |-> c, message |-> NoMessage])

\* channels.insert(container.id.clone(), (channel, Some(id)))
SetMessage(chs, id, c, m) == Put(chs, id, [channel |-> c, message |-> m])

\* Mutant of MessageCall: a new message is created whatever the handle holds.
MessageCallCreates(h) == "create_message"

\* match message { Some(message) => update_message, None => create_message }
MessageCall(h) == IF h.message # NoMessage THEN "update_message"
                  ELSE "create_message"

\* One Sink call: the operation, the key or container id it is issued for and
\* the channel it addresses (NoChannel when it addresses none).
Call(op, id, c) == [op |-> op, id |-> id, channel |-> c]

\* A `?` in message_update: the error leaves the loop and the function, the
\* guard is dropped, try_join! drops the Poller with its locals and main logs
\* the error.
ReconcilerExit(msg) ==
    /\ rpc' = "exited"
    /\ ppc' = "cancelled"
    /\ err' = msg
    /\ lock' = "free"
    /\ plist' = << >>
    /\ new_store' = EmptyMap

\* A panic in message_update unwinds through try_join! and main: the guard is
\* dropped and the process ends.
ReconcilerPanic(msg) ==
    /\ rpc' = "panicked"
    /\ ppc' = "cancelled"
    /\ err' = msg
    /\ lock' = "free"
    /\ plist' = << >>
    /\ new_store' = EmptyMap

\* std::env::var("DISCORD_TOKEN") is Ok: the client and the handle map are
\* made, sleep(15s).
RTokenOk ==
    /\ rpc = "token" /\ ~PRunning
    /\ rpc' = "sleep"
    /\ UNCHANGED << docker, changes, store, lock, pvars, channels, rlocals,
                    sink, nextId, err, created, published, calls, riter >>

\* .context("Failed to get DISCORD_TOKEN")?
RTokenFail ==
    /\ rpc = "token" /\ ~PRunning
    /\ ReconcilerExit("Failed to get DISCORD_TOKEN")
    /\ UNCHANGED << docker, changes, store, channels,
                    rlocals, sink, nextId, created, published, calls, riter >>

\* sleep(15s) / sleep(30s) elapsed: top of the loop, on to store.lock().await.
RWake ==
    /\ rpc = "sleep" /\ ~PRunning
    /\ rpc' = "lock_drain"
    /\ UNCHANGED << docker, changes, store, lock, pvars, channels, rlocals,
                    sink, nextId, err, created, published, calls, riter >>

\* for name in store.lock().await.to_remove.drain(..): the guard lives as long
\* as the for statement; drain(..) empties to_remove whatever is consumed.
RDrain ==
    /\ rpc = "lock_drain" /\ lock \in {"free", "reconciler"}
    /\ lock' = "reconciler"
    /\ rm_names' = store.to_remove
    /\ store' = [store EXCEPT !.to_remove = << >>]
    /\ calls' = << >>
    /\ rpc' = "rm_next"
    /\ UNCHANGED << docker, changes, pvars, channels, name, rm_matches, chan,
                    view, todo, cur, sink, nextId, err, created, published,
                    riter >>

\* The drain yields the next key: http.guild_channels(GUILD) is issued.
RRemoveNext ==
    /\ rpc = "rm_next" /\ rm_names # << >>
    /\ name' = Head(rm_names)
    /\ rm_names' = Tail(rm_names)
    /\ calls' = Append(calls, Call("guild_channels", Head(rm_names), NoChannel))
    /\ rpc' = "guild_channels"
    /\ UNCHANGED << docker, changes, store, lock, pvars, channels, rm_matches,
                    chan, view, todo, cur, sink, nextId, err, created,
                    published, riter >>

\* The drain is exhausted: the for statement ends and its guard is dropped.
RRemoveEnd ==
    /\ rpc = "rm_next" /\ rm_names = << >>
    /\ lock' = ReconcilerReleases
    /\ name' = NoName
    /\ rpc' = "lock_read"
    /\ UNCHANGED << docker, changes, store, pvars, channels, rm_names,
                    rm_matches, chan, view, todo, cur, sink, nextId, err,
                    created, published, calls, riter >>

\* guild_channels(GUILD).await answered: on to reading the body.
RGuildChannelsOk ==
    /\ rpc = "guild_channels" /\ ~PRunning
    /\ rpc' = "guild_channels_model"
    /\ UNCHANGED << docker, changes, store, lock, pvars, channels, rlocals,
                    sink, nextId, err, created, published, calls, riter >>

\* .context("Failed to get guild channels")?
RGuildChannelsFail ==
    /\ rpc = "guild_channels" /\ ~PRunning
    /\ ReconcilerExit("Failed to get guild channels")
    /\ UNCHANGED << docker, changes, store, channels,
                    rlocals, sink, nextId, created, published, calls, riter >>

\* .model().await answered: the channels of CATEGORY whose name is the key
\* (no one else changes the category between the answer and its body).
RGuildChannelsModelOk ==
    /\ rpc = "guild_channels_model" /\ ~PRunning
    /\ rm_matches' = MatchingChannels(sink, name)
    /\ rpc' = "rm_match"
    /\ UNCHANGED << docker, changes, store, lock, pvars, channels, rm_names,
                    name, chan, view, todo, cur, sink, nextId, err, created,
                    published, calls, riter >>

\* .context("Failed to get guild channels model")?
RGuildChannelsModelFail ==
    /\ rpc = "guild_channels_model" /\ ~PRunning
    /\ ReconcilerExit("Failed to get guild channels model")
    /\ UNCHANGED << docker, changes, store, channels,
                    rlocals, sink, nextId, created, published, calls, riter >>

\* Next matching channel: http.delete_channel(channel.id) is issued.
RDeleteIssue ==
    /\ rpc = "rm_match" /\ rm_matches # {}
    /\ \E c \in rm_matches :
          /\ chan' = c
          /\ rm_matches' = rm_matches \ {c}
          /\ calls' = Append(calls, Call("delete_channel", name, c))
    /\ rpc' = "delete_channel"
    /\ UNCHANGED << docker, changes, store, lock, pvars, channels, rm_names,
                    name, view, todo, cur, sink, nextId, err, created,
                    published, riter >>

\* No (more) matching channel: back to the drain.
RMatchEnd ==
    /\ rpc = "rm_match" /\ rm_matches = {}
    /\ chan' = NoChannel
    /\ rpc' = "rm_next"
    /\ UNCHANGED << docker, changes, store, lock, pvars, channels, rm_names,
                    name, rm_matches, view, todo, cur, sink, nextId, err,
                    created, published, calls, riter >>

\* delete_channel succeeded: channels.remove(&name).
RDeleteOk ==
    /\ rpc = "delete_channel" /\ ~PRunning
    /\ chan \in DOMAIN sink
    /\ sink' = Remove(sink, chan)
    /\ channels' = DropHandle(channels, name)
    /\ rpc' = "rm_match"
    /\ UNCHANGED << docker, changes, store, lock, pvars, rlocals, nextId, err,
                    created, published, calls, riter >>

\* Mutant of RDeleteFail: the handle is removed before the call is answered.
RDeleteFailDropsHandle ==
    /\ rpc = "delete_channel" /\ ~PRunning
    /\ ReconcilerExit("Failed to delete channel")
    /\ channels' = Remove(channels, name)
    /\ UNCHANGED << docker, changes, store, plist, new_store, rlocals, sink,
                    nextId, created, published, calls, riter >>

\* .context("Failed to delete channel")?
RDeleteFail ==
    /\ rpc = "delete_channel" /\ ~PRunning
    /\ ReconcilerExit("Failed to delete channel")
    /\ UNCHANGED << docker, changes, store, channels,
                    rlocals, sink, nextId, created, published, calls, riter >>

\* for container in store.lock().await.containers.values().collect::<Vec<_>>():
\* the guard lives as long as the for statement.
RRead ==
    /\ rpc = "lock_read" /\ lock \in {"free", "reconciler"}
    /\ lock' = "reconciler"
    /\ view' = store.containers
    /\ todo' = DOMAIN store.containers
    /\ rpc' = "up_next"
    /\ UNCHANGED << docker, changes, store, pvars, channels, rm_names, name,
                    rm_matches, chan, cur, sink, nextId, err, created,
                    published, calls, riter >>

\* channels.get(&container.id) is None and the name is one a channel may
\* have: create_guild_channel(GUILD, &container.name) is issued.
RCreateChannelIssue ==
    /\ rpc = "up_next"
    /\ \E c \in todo :
          /\ ~HasHandle(channels, c)
          /\ ValidChannelName(view[c])
          /\ cur' = c
          /\ todo' = todo \ {c}
          /\ calls' = Append(calls, Call("create_channel", c, NoChannel))
    /\ rpc' = "create_channel"
    /\ UNCHANGED << docker, changes, store, lock, pvars, channels, rm_names,
                    name, rm_matches, chan, view, sink, nextId, err, created,
                    published, riter >>

\* create_guild_channel(..).context("Failed to set channel name")?: no call
\* is issued.
RChannelNameFail ==
    /\ rpc = "up_next"
    /\ \E c \in todo :
          /\ ~HasHandle(channels, c)
          /\ ~ValidChannelName(view[c])
          /\ cur' = c
          /\ todo' = todo \ {c}
    /\ ReconcilerExit("Failed to set channel name")
    /\ UNCHANGED << docker, changes, store, channels,
                    rm_names, name, rm_matches, chan, view, sink, nextId,
                    created, published, calls, riter >>

\* channels.get(&container.id) is Some((channel, message)): on to the embed,
\* built from the container's image, command and logs as the daemon gave them.
RExisting ==
    /\ rpc = "up_next"
    /\ \E c \in todo :
          /\ HasHandle(channels, c)
          /\ cur' = c
          /\ todo' = todo \ {c}
    /\ \E l \in LogTexts : logs' = l
    /\ \E m \in Metas : meta' = m
    /\ rpc' = "sanitize"
    /\ UNCHANGED << docker, changes, store, lock, pvars, channels, rm_names,
                    name, rm_matches, chan, view, sink, nextId, err, created,
                    published, calls, text, description, resp >>

\* create_guild_channel(..).parent_id(CATEGORY).await answered: the channel
\* exists, on to reading the body.
RCreateChannelOk ==
    /\ rpc = "create_channel" /\ ~PRunning
    /\ sink' = Put(sink, nextId, [name |-> view[cur], msgs |-> {}])
    /\ created' = Put(created, nextId, cur)
    /\ resp' = nextId
    /\ nextId' = nextId + 1
    /\ rpc' = "create_channel_model"
    /\ UNCHANGED << docker, changes, store, lock, pvars, channels, rlocals,
                    err, published, calls, logs, text, description, meta >>

\* .context("Failed to create channel")?
RCreateChannelFail ==
    /\ rpc = "create_channel" /\ ~PRunning
    /\ ReconcilerExit("Failed to create channel")
    /\ UNCHANGED << docker, changes, store, channels,
                    rlocals, sink, nextId, created, published, calls, riter >>

\* .model().await answered: the handle is inserted with no message, on to the
\* embed.
RCreateChannelModelOk ==
    /\ rpc = "create_channel_model" /\ ~PRunning
    /\ channels' = NewHandle(channels, cur, resp)
    /\ resp' = NoChannel
    /\ \E l \in LogTexts : logs' = l
    /\ \E m \in Metas : meta' = m
    /\ rpc' = "sanitize"
    /\ UNCHANGED << docker, changes, store, lock, pvars, rlocals, sink, nextId,
                    err, created, published, calls, text, description >>

\* .context("Failed to get channel model")?: the channel exists, no handle.
RCreateChannelModelFail ==
    /\ rpc = "create_channel_model" /\ ~PRunning
    /\ ReconcilerExit("Failed to get channel model")
    /\ UNCHANGED << docker, changes, store, channels,
                    rlocals, sink, nextId, created, published, calls, riter >>

\* let logs = container.logs.iter().map(...).collect::<String>()
RSanitize ==
    /\ rpc = "sanitize"
    /\ text' = Sanitize(logs)
    /\ rpc' = "truncate"
    /\ UNCHANGED << docker, changes, store, lock, pvars, channels, rlocals,
                    sink, nextId, err, created, published, calls, logs,
                    description, meta, resp >>

\* &logs[start..] at a char boundary: the description is formatted.
RTruncateOk ==
    /\ rpc = "truncate"
    /\ IsCharBoundary(text, Start(text))
    /\ description' = SliceFrom(text, Start(text))
    /\ rpc' = "embed"
    /\ UNCHANGED << docker, changes, store, lock, pvars, channels, rlocals,
                    sink, nextId, err, created, published, calls, logs, text,
                    meta, resp >>

\* &logs[start..] inside a char: "byte index is not a char boundary".
RTruncatePanics ==
    /\ rpc = "truncate"
    /\ ~IsCharBoundary(text, Start(text))
    /\ ReconcilerPanic("byte index is not a char boundary")
    /\ UNCHANGED << docker, changes, store, channels,
                    rlocals, sink, nextId, created, published, calls, riter >>

\* Timestamp::from_micros(Utc::now().timestamp_micros())
\* .context("Failed to get timestamp")?: the clock is out of the range of a
\* Timestamp.
RTimestampFail ==
    /\ rpc = "embed"
    /\ ReconcilerExit("Failed to get timestamp")
    /\ UNCHANGED << docker, changes, store, channels,
                    rlocals, sink, nextId, created, published, calls, riter >>

\* .content(..).context("Failed to set message content")? and
\* .embeds(..).context("Failed to set message embeds")?
RRequestFail ==
    /\ rpc = "embed"
    /\ \E e \in RequestErrors(description, meta) : ReconcilerExit(e)
    /\ UNCHANGED << docker, changes, store, channels,
                    rlocals, sink, nextId, created, published, calls, riter >>

\* The request is valid: update_message(channel, message) or
\* create_message(channel) is issued with the embed.
RMessageIssue ==
    /\ rpc = "embed"
    /\ RequestErrors(description, meta) = {}
    /\ calls' = Append(calls, Call(MessageCall(channels[cur]), cur,
                                   channels[cur].channel))
    /\ rpc' = MessageCall(channels[cur])
    /\ logs' = NoText /\ text' = NoText /\ description' = NoText /\ meta' = 0
    /\ UNCHANGED << docker, changes, store, lock, pvars, channels, rlocals,
                    sink, nextId, err, created, published, resp >>

\* create_message(channel)...await answered: the message exists, on to reading
\* the body.
RCreateMessageOk ==
    /\ rpc = "create_message" /\ ~PRunning
    /\ channels[cur].channel \in DOMAIN sink
    /\ sink' = [sink EXCEPT ![channels[cur].channel].msgs = @ \cup {nextId}]
    /\ resp' = nextId
    /\ nextId' = nextId + 1
    /\ rpc' = "create_message_model"
    /\ UNCHANGED << docker, changes, store, lock, pvars, channels, rlocals,
                    err, created, published, calls, logs, text, description,
                    meta >>

\* create_message: .context("Failed to send message")?
RCreateMessageFail ==
    /\ rpc = "create_message" /\ ~PRunning
    /\ ReconcilerExit("Failed to send message")
    /\ UNCHANGED << docker, changes, store, channels,
                    rlocals, sink, nextId, created, published, calls, riter >>

\* update_message(channel, message)...await answered: on to reading the body.
RUpdateOk ==
    /\ rpc = "update_message" /\ ~PRunning
    /\ channels[cur].channel \in DOMAIN sink
    /\ channels[cur].message \in sink[channels[cur].channel].msgs
    /\ resp' = channels[cur].message
    /\ rpc' = "update_message_model"
    /\ UNCHANGED << docker, changes, store, lock, pvars, channels, rlocals,
                    sink, nextId, err, created, published, calls, logs, text,
                    description, meta >>

\* update_message: .context("Failed to send message")? (NotFound when the
\* channel is gone, or any other Sink error)
RUpdateFail ==
    /\ rpc = "update_message" /\ ~PRunning
    /\ ReconcilerExit("Failed to send message")
    /\ UNCHANGED << docker, changes, store, channels,
                    rlocals, sink, nextId, created, published, calls, riter >>

\* .model().await answered, .id:
\* channels.insert(container.id.clone(), (channel, Some(id)))
RMessageModelOk ==
    /\ rpc \in {"create_message_model", "update_message_model"} /\ ~PRunning
    /\ channels' = SetMessage(channels, cur, channels[cur].channel, resp)
    /\ resp' = NoChannel
    /\ rpc' = "up_next"
    /\ UNCHANGED << docker, changes, store, lock, pvars, rlocals, sink, nextId,
                    err, created, published, calls, logs, text, description,
                    meta >>

\* .context("Failed to get message model")?
RMessageModelFail ==
    /\ rpc \in {"create_message_model", "update_message_model"} /\ ~PRunning
    /\ ReconcilerExit("Failed to get message model")
    /\ UNCHANGED << docker, changes, store, channels,
                    rlocals, sink, nextId, created, published, calls, riter >>

\* Every container of the Vec is processed: the guard is dropped, the cycle
\* is over, sleep(30s).
RLoopEnd ==
    /\ rpc = "up_next" /\ todo = {}
    /\ lock' = ReconcilerReleases
    /\ view' = EmptyMap
    /\ cur' = NoName
    /\ calls' = << >>
    /\ rpc' = "sleep"
    /\ UNCHANGED << docker, changes, store, pvars, channels, rm_names, name,
                    rm_matches, chan, todo, sink, nextId, err, created,
                    published, riter >>

\* ------------------------------------------------------------ specification
PollerNext ==
    \/ PConnectOk \/ PConnectFail \/ PListOk \/ PListFail \/ PSkipMalformed \/ PLogsIssue \/ PLogsDone
    \/ PLoopEnd \/ PPublish \/ PWake

ReconcilerNext ==
    \/ RTokenOk \/ RTokenFail
    \/ RWake \/ RDrain \/ RRemoveNext \/ RRemoveEnd
    \/ RGuildChannelsOk \/ RGuildChannelsFail
    \/ RGuildChannelsModelOk \/ RGuildChannelsModelFail
    \/ RDeleteIssue \/ RMatchEnd \/ RDeleteOk \/ RDeleteFail
    \/ RRead \/ RCreateChannelIssue \/ RChannelNameFail \/ RExisting
    \/ RCreateChannelOk \/ RCreateChannelFail
    \/ RCreateChannelModelOk \/ RCreateChannelModelFail
    \/ RSanitize \/ RTruncateOk \/ RTruncatePanics
    \/ RTimestampFail \/ RRequestFail \/ RMessageIssue
    \/ RCreateMessageOk \/ RCreateMessageFail
    \/ RUpdateOk \/ RUpdateFail
    \/ RMessageModelOk \/ RMessageModelFail
    \/ RLoopEnd

Next == DockerChange \/ PollerNext \/ ReconcilerNext

Spec == Init /\ [][Next]_vars

\* Timers fire and pending calls are answered. A task whose future is ready
\* is polled as soon as the other task suspends, so a step that is enabled
\* again and again (it is disabled only while the other task runs) is taken.
FairSpec == Spec /\ SF_vars(PollerNext) /\ SF_vars(ReconcilerNext)

\* The formatter on its own: the Reconciler is about to build the embed of
\* container "a", which has a channel and a message; the logs range over
\* LogInputs.
FmtInit ==
    /\ logs \in LogInputs
    /\ text = NoText
    /\ description = NoText
    /\ meta \in Metas
    /\ resp = NoChannel
    /\ docker = [i \in Ids |-> IF i = "a" THEN "n" ELSE Absent]
    /\ changes = 0
    /\ store = [containers |-> Put(EmptyMap, "a", "n"), to_remove |-> << >>]
    /\ lock = "reconciler"
    /\ ppc = "sleep"
    /\ plist = << >>
    /\ new_store = EmptyMap
    /\ rpc = "sanitize"
    /\ channels = Put(EmptyMap, "a", [channel |-> 1, message |-> 2])
    /\ rm_names = << >>
    /\ name = NoName
    /\ rm_matches = {}
    /\ chan = NoChannel
    /\ view = Put(EmptyMap, "a", "n")
    /\ todo = {}
    /\ cur = "a"
    /\ sink = Put(EmptyMap, 1, [name |-> "n", msgs |-> {2}])
    /\ nextId = 3
    /\ err = "none"
    /\ created = Put(EmptyMap, 1, "a")
    /\ published = Put(EmptyMap, "a", "n")
    /\ calls = << >>

FmtNext == RSanitize \/ RTruncateOk \/ RTruncatePanics

FmtSpec == FmtInit /\ [][FmtNext]_vars

\* ====================================================================== claims
SinkCallPending ==
    rpc \in {"guild_channels", "guild_channels_model", "delete_channel",
             "create_channel", "create_channel_model", "create_message",
             "create_message_model", "update_message", "update_message_model"}

UpdateLoop == rpc \in {"up_next", "create_channel", "create_channel_model",
                       "sanitize", "truncate", "embed", "create_message",
                       "create_message_model", "update_message",
                       "update_message_model"}

\* What a failed Sink call, or a Sink answer whose body cannot be read, ends
\* message_update with.
SinkErrors == {"Failed to get guild channels", "Failed to get guild channels model",
               "Failed to delete channel", "Failed to create channel",
               "Failed to get channel model", "Failed to send message",
               "Failed to get message model"}

\* The keys the current cycle drained from to_remove and has looked up.
Drained == {calls[k].id : k \in {j \in 1..Len(calls) : calls[j].op = "guild_channels"}}

\* The delete_channel calls the current cycle issued for key k.
Deletes(k) == {j \in 1..Len(calls) : calls[j].op = "delete_channel" /\ calls[j].id = k}

\* The channels created for container id i that still exist in the Sink.
LiveChannelsOf(i) == {c \in DOMAIN sink : c \in DOMAIN created /\ created[c] = i}

\* C1: every workload id has at most one Resource Handle: no second channel is
\* created for an id while a channel created earlier for it is not deleted.
C1_Original == \A i \in Ids : Cardinality(LiveChannelsOf(i)) <= 1

\* C2: when the removal loop of a cycle is over, every drained id has lost its
\* handle and the channel created for it is deleted ({A, B} then {B}: A's
\* channel is gone and one handle, B's, is left).
C2_Original ==
    rpc = "lock_read" =>
        \A k \in Drained : k \notin DOMAIN channels /\ LiveChannelsOf(k) = {}

\* The handle map holds exactly the ids of the snapshot.
Converged == DOMAIN channels = DOMAIN store.containers

WellFormed == \A i \in Ids : docker[i] # MissingField

\* C3: with a Workload Source that (from some moment on) returns the same
\* well-formed set and a Sink that never fails, the ids of the handle map
\* eventually equal the ids of the snapshot and stay equal.
C3_Original == (<>[]WellFormed /\ []Alive) => <>[]Converged

\* C4: when create_channel is issued for a workload, no channel of the same
\* display name is left over from a removed workload with another id whose
\* removal is no longer pending (its delete comes first), and a workload is
\* never served by a channel created for another id.
C4_Original ==
    /\ rpc = "create_channel" =>
          \A c \in (DOMAIN sink) \cap (DOMAIN created) :
              (/\ sink[c].name = view[cur]
               /\ created[c] # cur
               /\ created[c] \notin DOMAIN store.containers
               /\ \A k \in 1..Len(store.to_remove) : store.to_remove[k] # created[c])
              => FALSE
    /\ \A i \in DOMAIN channels : created[channels[i].channel] = i

\* C5: a drained id gets one delete call and one handle removal if it has a
\* handle, an id without a handle gets no delete call, and when the removal
\* loop is over no drained id has a handle left (a second application is a
\* no-op).
C5_Original ==
    /\ rpc = "delete_channel" => name \in DOMAIN channels
    /\ \A k \in Drained : Cardinality(Deletes(k)) <= 1
    /\ rpc = "lock_read" => \A k \in Drained : k \notin DOMAIN channels

\* C6: a step in which a Sink call fails leaves the handle map as it was
\* before the call.
C6_FailureKeepsHandles ==
    [][(rpc # "exited" /\ rpc' = "exited") => channels' = channels]_vars

\* A delete_channel call failed while the removed key still has its handle.
C6_Witness ==
    /\ rpc = "exited" /\ err = "Failed to delete channel"
    /\ name \in DOMAIN channels

\* C7: a failed Sink call never ends the Reconciler loop or the process.
C7_Original == err \in SinkErrors => (rpc # "exited" /\ ppc # "cancelled")

\* C8: a failure of one task never stops the other.
C8_Original ==
    /\ ppc = "exited" => rpc # "cancelled"
    /\ rpc = "exited" => ppc # "cancelled"

\* C9: no task holds the Store lock while a call to the Workload Source or
\* the Notification Sink, or a sleep, is pending.
C9_Original ==
    /\ (SinkCallPending \/ rpc = "sleep") => lock # "reconciler"
    /\ ppc \in {"list", "logs", "sleep"} => lock # "poller"

\* C10: the map a Reconciler cycle works from is the map of one single Poller
\* publish (the latest one), never a mix of two.
C10_SnapshotConsistency == UpdateLoop => view = published

\* The Reconciler works from a published map while the Poller waits at the
\* lock with a different map to publish.
C10_Witness ==
    /\ rpc = "update_message" /\ view # EmptyMap
    /\ ppc = "lock" /\ new_store # view /\ new_store # EmptyMap

\* The ids pending in store.to_remove.
Pending == {store.to_remove[k] : k \in 1..Len(store.to_remove)}

\* The step is a Poller publish.
PublishStep == ppc = "lock" /\ ppc' = "sleep"

\* C11: a Poller publish unions the ids that disappeared into pendingRemovals
\* and discards no id that is already pending, so an id that disappeared is
\* still pending at the next drain however many polls ran in between.
C11_Original ==
    [][PublishStep => \A k \in 1..Len(store.to_remove) :
                         \E j \in 1..Len(store'.to_remove) :
                            store'.to_remove[j] = store.to_remove[k]]_vars

\* C12: pendingRemovals and the installed workloads map are disjoint, every
\* pending id was a key of the map the publish replaced, and ids enter
\* pendingRemovals through a Poller publish only.
C12_PendingRemovals ==
    /\ [](Pending \cap DOMAIN store.containers = {})
    /\ [][/\ PublishStep =>
               \A j \in 1..Len(store'.to_remove) :
                   store'.to_remove[j] \in DOMAIN store.containers
          /\ ~PublishStep =>
               \A j \in 1..Len(store'.to_remove) :
                   \E k \in 1..Len(store.to_remove) :
                      store.to_remove[k] = store'.to_remove[j]]_vars

\* A publish left a removed id pending next to a non-empty map.
C12_Witness ==
    /\ store.to_remove # << >>
    /\ store.containers # EmptyMap
    /\ ppc = "sleep"

\* C13: a Poller cycle that cannot list the workloads leaves the Store as it
\* is and the Poller sleeps and runs a further cycle.
C13_Original == err = "Failed to list containers" => ppc # "exited"

\* The calls of kind op the current cycle issued for container id i.
CallsFor(op, i) == {j \in 1..Len(calls) : calls[j].op = op /\ calls[j].id = i}

\* The containers of `view` the update loop has finished with.
Processed == IF rpc = "up_next" THEN (DOMAIN view) \ todo ELSE {}

\* The handle of i has a channel the Reconciler created and a message.
Populated(i) ==
    /\ i \in DOMAIN channels
    /\ channels[i].channel \in DOMAIN created
    /\ channels[i].message # NoMessage

\* The processing of container i is under way in the update loop.
InProgress(i) ==
    i = cur /\ UpdateLoop /\ rpc # "up_next"

\* C14: once the cycle is through with a workload that had no handle, and no
\* Sink call of the cycle failed or was abandoned, exactly one create-channel
\* call and exactly one create-message call were issued for it and its handle
\* holds the channel and the message.
C14_Original ==
    \A i \in (DOMAIN view) \ todo :
        ( /\ CallsFor("create_channel", i) # {}
          /\ ~InProgress(i)
          /\ rpc \notin {"exited", "cancelled"} )
        => /\ Cardinality(CallsFor("create_channel", i)) = 1
           /\ Cardinality(CallsFor("create_message", i)) = 1
           /\ Populated(i)

RECURSIVE DropChars(_, _)
\* The String t without its first k chars.
DropChars(t, k) ==
    IF k = 0 \/ t = << >> THEN t
    ELSE IF k >= Head(t).n THEN DropChars(Tail(t), k - Head(t).n)
         ELSE << [c |-> Head(t).c, n |-> Head(t).n - k] >> \o Tail(t)

\* The final k chars of the String t (all of t when it has fewer).
TailChars(t, k) == IF CharLen(t) > k THEN DropChars(t, CharLen(t) - k) ELSE t

Min(x, y) == IF x < y THEN x ELSE y

\* C15: formatting never fails, and the log portion of the payload has
\* min(L, Limit) chars, the final Limit chars of the sanitized text of L chars.
C15_Original ==
    /\ rpc # "panicked"
    /\ rpc = "embed" =>
          /\ CharLen(description) = Min(CharLen(text), Limit)
          /\ description = TailChars(text, Limit)

\* C16: a workload whose handle has a message gets an update-message call on
\* that channel and message and no create call; no channel ever holds more
\* than one message, and a handle that has a message keeps its channel and
\* its message as long as it exists.
C16_UpdateInPlace ==
    /\ [](/\ rpc = "update_message" =>
               /\ Populated(cur)
               /\ calls[Len(calls)] = Call("update_message", cur, channels[cur].channel)
               /\ CallsFor("create_channel", cur) = {}
               /\ CallsFor("create_message", cur) = {}
          /\ \A c \in DOMAIN sink : Cardinality(sink[c].msgs) <= 1)
    /\ [][\A i \in (DOMAIN channels) \cap (DOMAIN channels') :
              channels[i].message # NoMessage => channels'[i] = channels[i]]_vars

\* An update was answered: the handle is as it was before the call.
C16_Witness ==
    /\ rpc = "up_next" /\ cur \in Processed
    /\ CallsFor("update_message", cur) # {}
    /\ Populated(cur)

\* C17: a listed entry with a missing field is left out of the published map
\* while the well-formed entries of the same listing are published, and if
\* its id was in the map before, the publish puts it into pendingRemovals.
\* (The daemon's state changes during the Poller's sleep only, so at the
\* publish `docker` is the listing the cycle got.)
C17_MalformedSkipped ==
    [][PublishStep =>
          \A i \in Ids :
             /\ docker[i] = MissingField =>
                   /\ i \notin DOMAIN store'.containers
                   /\ i \in DOMAIN store.containers =>
                         \E j \in 1..Len(store'.to_remove) : store'.to_remove[j] = i
             /\ docker[i] \in Names =>
                   /\ i \in DOMAIN store'.containers
                   /\ store'.containers[i] = docker[i]]_vars

\* A publish of a listing with a malformed entry put its id, published
\* before, into pendingRemovals and published the other entry.
C17_Witness ==
    /\ ppc = "sleep"
    /\ \E i \in Ids : docker[i] = MissingField /\ i \in Pending
    /\ \E i \in Ids : docker[i] \in Names /\ i \in DOMAIN store.containers

\* C18: when update_message fails because the channel of the handle is gone
\* (NotFound), the Reconciler drops the handle, and goes on so that a later
\* cycle creates a new channel and message for the workload.
C18_Original ==
    (/\ err = "Failed to send message"
     /\ calls # << >>
     /\ calls[Len(calls)].op = "update_message"
     /\ calls[Len(calls)].channel \notin DOMAIN sink)
    => (cur \notin DOMAIN channels /\ rpc # "exited")

\* C19: the map a cycle processes comes from the publish whose removals the
\* cycle drained: no publish takes effect between the drain and the read, so
\* no removal is pending while the cycle creates or updates.
C19_Original == UpdateLoop => store.to_remove = << >>

\* C20: no delete_channel call addresses the channel of the handle of a
\* workload of the current snapshot, so no such handle is left pointing at a
\* deleted channel.
C20_Original ==
    /\ rpc = "delete_channel" =>
          \A i \in (DOMAIN channels) \cap (DOMAIN store.containers) :
              channels[i].channel # chan
    /\ \A i \in (DOMAIN channels) \cap (DOMAIN store.containers) :
          channels[i].channel \in DOMAIN sink

====
